---- MODULE Spec2Model ----
(***************************************************************************)
(* Account-state layer of the DEX (program/src/state.rs): the market state *)
(* record, the user account header with its borsh encoding, and the user  *)
(* account handle that keeps a cached header next to the shared account   *)
(* buffer holding the header bytes followed by the slab of 16-byte order  *)
(* ids.                                                                   *)
(*                                                                         *)
(* Numbers are TLC integers, so every u32 / u64 / u128 the model draws is  *)
(* below 2^31; a product that would leave that range is guarded where it   *)
(* is formed.  A byte offset o of the Rust slice is element o + 1 of the   *)
(* sequence.                                                               *)
(***************************************************************************)
EXTENDS Integers, Sequences, FiniteSets, TLC

VARIABLES
    data,     \* the account buffer, AccountInfo::data (a sequence of bytes)
    handles,  \* the UserAccount handles bound to the buffer: live flag + header
    ret,      \* the last call on the account: operation, handle, argument, result
    inp,      \* input of the pure record functions (pack / unpack, check)
    out       \* their output

vars == <<data, handles, ret, inp, out>>

-----------------------------------------------------------------------------
(* Bounds of the model *)

\* Number of whole order slots of the largest account buffer.
MaxSlots == 2

-----------------------------------------------------------------------------
(* Constants of the program *)

\* UserAccountHeader::LEN
LEN == 109

\* Bytes of one order id: the width of u128 used in every slot offset.
ORDER_LEN == 16

\* A u32 product n * 16 leaves the u32 range exactly when n >= 2^28.
U32_MUL16_LIMIT == 2 ^ 28

-----------------------------------------------------------------------------
(* Little-endian integers: to_le_bytes / from_le_bytes and borsh's u32, u64 *)

RECURSIVE to_le_bytes(_, _)
to_le_bytes(x, width) ==
    IF width = 0 THEN << >>
    ELSE << x % 256 >> \o to_le_bytes(x \div 256, width - 1)

RECURSIVE from_le_bytes(_)
from_le_bytes(bytes) ==
    IF bytes = << >> THEN 0
    ELSE Head(bytes) + 256 * from_le_bytes(Tail(bytes))

\* The Rust slice s[from..to]; the caller has checked that it is in range.
Slice(s, from, to) == SubSeq(s, from + 1, to)

-----------------------------------------------------------------------------
(* AccountTag and UserAccountHeader with their borsh encoding *)

AccountTag == {"Uninitialized", "DexState", "UserAccount"}

\* borsh writes an enum as the u8 index of its variant.
TagByteBroken(tag) ==
    CASE tag = "Uninitialized" -> 0
      [] tag = "DexState"      -> 2
      [] tag = "UserAccount"   -> 1

TagByte(tag) ==
    CASE tag = "Uninitialized" -> 0
      [] tag = "DexState"      -> 1
      [] tag = "UserAccount"   -> 2

TagOfByte(b) ==
    CASE b = 0 -> "Uninitialized"
      [] b = 1 -> "DexState"
      [] b = 2 -> "UserAccount"

\* The derived BorshSerialize of UserAccountHeader with two fields swapped.
SerializeSwapped(header) ==
    << TagByte(header.tag) >>
        \o header.market
        \o header.owner
        \o to_le_bytes(header.base_token_locked, 8)
        \o to_le_bytes(header.base_token_free, 8)
        \o to_le_bytes(header.quote_token_free, 8)
        \o to_le_bytes(header.quote_token_locked, 8)
        \o to_le_bytes(header.accumulated_rebates, 8)
        \o to_le_bytes(header.number_of_orders, 4)

\* The derived BorshSerialize: the fields in declaration order.
Serialize(header) ==
    << TagByte(header.tag) >>
        \o header.market
        \o header.owner
        \o to_le_bytes(header.base_token_free, 8)
        \o to_le_bytes(header.base_token_locked, 8)
        \o to_le_bytes(header.quote_token_free, 8)
        \o to_le_bytes(header.quote_token_locked, 8)
        \o to_le_bytes(header.accumulated_rebates, 8)
        \o to_le_bytes(header.number_of_orders, 4)

\* The header read back field by field from 109 bytes whose tag byte is valid.
HeaderOfBytes(src) ==
    [ tag                 |-> TagOfByte(src[1]),
      market              |-> Slice(src, 1, 33),
      owner               |-> Slice(src, 33, 65),
      base_token_free     |-> from_le_bytes(Slice(src, 65, 73)),
      base_token_locked   |-> from_le_bytes(Slice(src, 73, 81)),
      quote_token_free    |-> from_le_bytes(Slice(src, 81, 89)),
      quote_token_locked  |-> from_le_bytes(Slice(src, 89, 97)),
      accumulated_rebates |-> from_le_bytes(Slice(src, 97, 105)),
      number_of_orders    |-> from_le_bytes(Slice(src, 105, 109)) ]

\* A header for the positions where a result carries none.
NoHeader ==
    [ tag                 |-> "Uninitialized",
      market              |-> [i \in 1 .. 32 |-> 0],
      owner               |-> [i \in 1 .. 32 |-> 0],
      base_token_free     |-> 0,
      base_token_locked   |-> 0,
      quote_token_free    |-> 0,
      quote_token_locked  |-> 0,
      accumulated_rebates |-> 0,
      number_of_orders    |-> 0 ]

\* Pack::pack_into_slice: serialize into the front of dst and unwrap.  The
\* writer of a byte slice copies what fits; with less room than the encoding
\* needs it fills dst, reports WriteZero, and unwrap aborts.
pack_into_slice(header, dst) ==
    LET bytes == Serialize(header) IN
    IF Len(dst) >= Len(bytes)
    THEN [ res |-> "Ok", data |-> bytes \o SubSeq(dst, Len(bytes) + 1, Len(dst)) ]
    ELSE [ res |-> "panic", data |-> SubSeq(bytes, 1, Len(dst)) ]

\* Pack::unpack_from_slice: the derived BorshDeserialize, every error mapped to
\* InvalidAccountData.  The tag is read first and must be a variant index;
\* the remaining fields accept every byte; running out of input is an error.
unpack_from_slice(src) ==
    IF Len(src) < 1 \/ src[1] \notin {0, 1, 2} \/ Len(src) < LEN
    THEN [ res |-> "InvalidAccountData", header |-> NoHeader ]
    ELSE [ res |-> "Ok", header |-> HeaderOfBytes(src) ]

\* IsInitialized::is_initialized
is_initialized(header) == header.tag = "UserAccount"

\* Pack::unpack as parse calls it: the length check of unpack_unchecked, then
\* unpack_from_slice, then the is_initialized check.
Unpack(input) ==
    IF Len(input) # LEN
    THEN [ res |-> "InvalidAccountData", header |-> NoHeader ]
    ELSE LET r == unpack_from_slice(input) IN
         IF r.res # "Ok" THEN r
         ELSE IF is_initialized(r.header) THEN r
         ELSE [ res |-> "UninitializedAccount", header |-> NoHeader ]

-----------------------------------------------------------------------------
(* DexState *)

\* check with the comparison against the wrong tag: only an uninitialized
\* record is refused.
check_rejects_uninitialized_only(self) ==
    IF self.tag = "Uninitialized"
    THEN [ res |-> "InvalidAccountData" ]
    ELSE [ res |-> "Ok", state |-> self ]

\* DexState::check: the record itself when its tag is DexState.
check(self) ==
    IF self.tag # "DexState"
    THEN [ res |-> "InvalidAccountData" ]
    ELSE [ res |-> "Ok", state |-> self ]

-----------------------------------------------------------------------------
(* UserAccount: a header held in memory and the shared account buffer *)

\* Whether the 16 bytes of slot index lie inside buf: the range check of a
\* slice expression buf[offset..offset + 16] with offset = LEN + index * 16.
\* Every buffer is far shorter than 2^26 slots; the first conjunct keeps the
\* product of the second within the integers of TLC.
SlotInRange(buf, index) ==
    /\ index < 2 ^ 26
    /\ LEN + index * ORDER_LEN + ORDER_LEN <= Len(buf)

\* The order id stored in slot index of buf (slot in range).
SlotValue(buf, index) ==
    from_le_bytes(Slice(buf, LEN + index * ORDER_LEN,
                             LEN + index * ORDER_LEN + ORDER_LEN))

\* buf[offset..offset + 16].copy_from_slice(order.to_le_bytes())
CopyToSlot(buf, index, order) ==
    LET offset == LEN + index * ORDER_LEN
        bytes  == to_le_bytes(order, ORDER_LEN)
    IN  [ i \in 1 .. Len(buf) |->
            IF i > offset /\ i <= offset + ORDER_LEN THEN bytes[i - offset]
            ELSE buf[i] ]

\* UserAccount::parse: slice the leading LEN bytes (an abort when the buffer
\* is shorter), unpack them, and bind the header to the buffer.
parse(buf) ==
    IF Len(buf) < LEN
    THEN [ res |-> "panic", header |-> NoHeader ]
    ELSE Unpack(Slice(buf, 0, LEN))

\* write that stores every header field but number_of_orders.
write_without_count(header, buf) ==
    LET r == pack_into_slice(header, buf) IN
    IF r.res # "Ok" THEN r
    ELSE [ res  |-> "Ok",
           data |-> [ i \in 1 .. Len(buf) |->
                        IF i > LEN - 4 /\ i <= LEN THEN buf[i] ELSE r.data[i] ] ]

\* UserAccount::write
write(header, buf) == pack_into_slice(header, buf)

\* UserAccount::read_order
read_order(header, buf, order_index) ==
    IF order_index >= header.number_of_orders
    THEN [ res |-> "InvalidOrderIndex", val |-> -1 ]
    ELSE IF ~ SlotInRange(buf, order_index)
    THEN [ res |-> "panic", val |-> -1 ]
    ELSE [ res |-> "Ok", val |-> SlotValue(buf, order_index) ]

\* remove_order with the index check written > instead of >=: an index equal
\* to number_of_orders passes, and with no orders the subtraction underflows.
remove_order_off_by_one(header, buf, order_index) ==
    IF order_index > header.number_of_orders
    THEN [ res |-> "InvalidOrderIndex", header |-> header, data |-> buf ]
    ELSE IF header.number_of_orders = 0
    THEN [ res |-> "panic", header |-> header, data |-> buf ]
    ELSE IF header.number_of_orders - order_index # 1
    THEN LET last_order ==
                 read_order(header, buf, header.number_of_orders - 1)
         IN  IF last_order.res # "Ok" \/ ~ SlotInRange(buf, order_index)
             THEN [ res |-> "panic", header |-> header, data |-> buf ]
             ELSE [ res    |-> "Ok",
                    header |-> [header EXCEPT !.number_of_orders = @ - 1],
                    data   |-> CopyToSlot(buf, order_index, last_order.val) ]
    ELSE [ res    |-> "Ok",
           header |-> [header EXCEPT !.number_of_orders = @ - 1],
           data   |-> buf ]

\* UserAccount::remove_order
remove_order(header, buf, order_index) ==
    IF order_index >= header.number_of_orders
    THEN [ res |-> "InvalidOrderIndex", header |-> header, data |-> buf ]
    ELSE IF header.number_of_orders - order_index # 1
    THEN LET last_order ==
                 read_order(header, buf, header.number_of_orders - 1)
         IN  IF last_order.res # "Ok"
             THEN [ res |-> last_order.res, header |-> header, data |-> buf ]
             ELSE IF ~ SlotInRange(buf, order_index)
             THEN [ res |-> "panic", header |-> header, data |-> buf ]
             ELSE [ res    |-> "Ok",
                    header |-> [header EXCEPT !.number_of_orders = @ - 1],
                    data   |-> CopyToSlot(buf, order_index, last_order.val) ]
    ELSE [ res    |-> "Ok",
           header |-> [header EXCEPT !.number_of_orders = @ - 1],
           data   |-> buf ]
\* add_order that stores the order and forgets to count it.
add_order_without_count(header, buf, order, overflow_checks) ==
    LET slot == header.number_of_orders % U32_MUL16_LIMIT IN
    IF header.number_of_orders >= U32_MUL16_LIMIT /\ overflow_checks
    THEN [ res |-> "panic", header |-> header, data |-> buf ]
    ELSE IF ~ SlotInRange(buf, slot)
    THEN [ res |-> "UserAccountFull", header |-> header, data |-> buf ]
    ELSE [ res    |-> "Ok",
           header |-> header,
           data   |-> CopyToSlot(buf, slot, order) ]

\* UserAccount::add_order.  The offset is LEN + (number_of_orders * 16) as
\* usize with the product formed in u32: from 2^28 orders on it overflows,
\* which aborts in a build with overflow checks and wraps in one without; the
\* wrapped product is 16 * (number_of_orders mod 2^28).  get_mut yields
\* nothing when the 16 bytes at the offset are not inside the buffer.
\* (number_of_orders + 1 cannot overflow: at 2^32 - 1 the slot is out of range.)
add_order(header, buf, order, overflow_checks) ==
    LET slot == header.number_of_orders % U32_MUL16_LIMIT IN
    IF header.number_of_orders >= U32_MUL16_LIMIT /\ overflow_checks
    THEN [ res |-> "panic", header |-> header, data |-> buf ]
    ELSE IF ~ SlotInRange(buf, slot)
    THEN [ res |-> "UserAccountFull", header |-> header, data |-> buf ]
    ELSE [ res    |-> "Ok",
           header |-> [header EXCEPT !.number_of_orders = @ + 1],
           data   |-> CopyToSlot(buf, slot, order) ]

\* UserAccount::find_order_index: the lazy scan of the slots from index on;
\* it stops at the first match, and slicing a slot outside the buffer aborts.
RECURSIVE find_from(_, _, _, _)
find_from(header, buf, order_id, index) ==
    IF index >= header.number_of_orders
    THEN [ res |-> "OrderNotFound", val |-> -1 ]
    ELSE IF ~ SlotInRange(buf, index)
    THEN [ res |-> "panic", val |-> -1 ]
    ELSE IF SlotValue(buf, index) = order_id
    THEN [ res |-> "Ok", val |-> index ]
    ELSE find_from(header, buf, order_id, index + 1)

\* The scan run from the last occupied slot downwards: the last match wins.
RECURSIVE find_back(_, _, _, _)
find_back(header, buf, order_id, left) ==
    IF left = 0
    THEN [ res |-> "OrderNotFound", val |-> -1 ]
    ELSE IF ~ SlotInRange(buf, left - 1)
    THEN [ res |-> "panic", val |-> -1 ]
    ELSE IF SlotValue(buf, left - 1) = order_id
    THEN [ res |-> "Ok", val |-> left - 1 ]
    ELSE find_back(header, buf, order_id, left - 1)

find_order_index_last_match(header, buf, order_id) ==
    find_back(header, buf, order_id, header.number_of_orders)

find_order_index(header, buf, order_id) == find_from(header, buf, order_id, 0)

-----------------------------------------------------------------------------
(* The inputs the model draws *)

Handles == {1, 2}

KeyA == [i \in 1 .. 32 |-> i]
KeyB == [i \in 1 .. 32 |-> 255 - i]

OrderIds == {513, 66000}

Indexes == 0 .. MaxSlots + 1

\* Buffer lengths: one byte short of a header, k whole slots, and one byte
\* short of the largest slab.
BufLens ==
    {LEN - 1} \cup {LEN + ORDER_LEN * k : k \in 0 .. MaxSlots}
              \cup {LEN + ORDER_LEN * MaxSlots - 1}

\* Stored order counts: within the slab, beyond it, and where n * 16 wraps.
StoredCounts == (0 .. MaxSlots + 1) \cup {U32_MUL16_LIMIT}

\* First bytes of an account: the three tags and a byte that is no tag.
TagBytes == {0, 1, 2, 3}

SlabPatterns == {"zero", "distinct"}

PatternSlot(pattern, k) ==
    CASE pattern = "zero"     -> 0
      [] pattern = "distinct" -> IF k % 2 = 0 THEN 513 ELSE 66000

RECURSIVE SlabBytes(_, _, _)
SlabBytes(pattern, k, slots) ==
    IF k >= slots THEN << >>
    ELSE to_le_bytes(PatternSlot(pattern, k), ORDER_LEN)
             \o SlabBytes(pattern, k + 1, slots)

StoredHeader(n) ==
    [ tag                 |-> "UserAccount",
      market              |-> KeyA,
      owner               |-> KeyB,
      base_token_free     |-> 5,
      base_token_locked   |-> 258,
      quote_token_free    |-> 0,
      quote_token_locked  |-> 65536,
      accumulated_rebates |-> 2147483647,
      number_of_orders    |-> n ]

\* The bytes of an account handed to the program.
AccountBytes(len, tag_byte, n, pattern) ==
    SubSeq(<< tag_byte >> \o Tail(Serialize(StoredHeader(n)))
               \o SlabBytes(pattern, 0, MaxSlots + 1),
           1, len)

\* Headers a caller registers a new account with: no orders yet.
RegisterHeaders ==
    { [ StoredHeader(0) EXCEPT !.base_token_free = f, !.market = m ] :
        f \in {70000}, m \in {KeyB} }

-----------------------------------------------------------------------------
(* The account specification: calls on a handle bound to the buffer *)

NoInput == [ kind |-> "none" ]

Call(op, h, arg, res, val) ==
    [ op |-> op, h |-> h, arg |-> arg, res |-> res, val |-> val ]

Aborted == ret.res = "panic"

Live(h) == handles[h].live

Init ==
    /\ \E len \in BufLens, tag_byte \in TagBytes, pattern \in SlabPatterns,
          n \in StoredCounts :
           data = AccountBytes(len, tag_byte, n, pattern)
    /\ handles = [h \in Handles |-> [live |-> FALSE, header |-> NoHeader]]
    /\ ret = Call("init", 0, -1, "Ok", -1)
    /\ inp = NoInput
    /\ out = NoInput

\* UserAccount::new with the header of a fresh registration.
New(h) ==
    /\ ~ Aborted /\ ~ Live(h)
    /\ \E header \in RegisterHeaders :
           handles' = [handles EXCEPT ![h] = [live |-> TRUE, header |-> header]]
    /\ ret' = Call("new", h, -1, "Ok", -1)
    /\ UNCHANGED <<data, inp, out>>

Parse(h) ==
    /\ ~ Aborted /\ ~ Live(h)
    /\ LET r == parse(data) IN
       /\ handles' = IF r.res = "Ok"
                     THEN [handles EXCEPT ![h] = [live |-> TRUE, header |-> r.header]]
                     ELSE handles
       /\ ret' = Call("parse", h, -1, r.res, -1)
    /\ UNCHANGED <<data, inp, out>>

\* The handle leaves scope at the end of the instruction that made it.
Drop(h) ==
    /\ ~ Aborted /\ Live(h)
    /\ handles' = [handles EXCEPT ![h] = [live |-> FALSE, header |-> NoHeader]]
    /\ ret' = Call("drop", h, -1, "Ok", -1)
    /\ UNCHANGED <<data, inp, out>>

Write(h) ==
    /\ ~ Aborted /\ Live(h)
    /\ LET r == write(handles[h].header, data) IN
       /\ data' = r.data
       /\ ret' = Call("write", h, -1, r.res, -1)
    /\ UNCHANGED <<handles, inp, out>>

ReadOrder(h) ==
    /\ ~ Aborted /\ Live(h)
    /\ \E order_index \in Indexes :
         LET r == read_order(handles[h].header, data, order_index) IN
           ret' = Call("read_order", h, order_index, r.res, r.val)
    /\ UNCHANGED <<data, handles, inp, out>>

RemoveOrder(h) ==
    /\ ~ Aborted /\ Live(h)
    /\ \E order_index \in Indexes :
         LET r == remove_order(handles[h].header, data, order_index) IN
           /\ data' = r.data
           /\ handles' = [handles EXCEPT ![h].header = r.header]
           /\ ret' = Call("remove_order", h, order_index, r.res, -1)
    /\ UNCHANGED <<inp, out>>

AddOrder(h) ==
    /\ ~ Aborted /\ Live(h)
    /\ \E order \in OrderIds, overflow_checks \in BOOLEAN :
         LET r == add_order(handles[h].header, data, order, overflow_checks) IN
           /\ data' = r.data
           /\ handles' = [handles EXCEPT ![h].header = r.header]
           /\ ret' = Call("add_order", h, order, r.res, -1)
    /\ UNCHANGED <<inp, out>>

FindOrderIndex(h) ==
    /\ ~ Aborted /\ Live(h)
    /\ \E order_id \in OrderIds :
         LET r == find_order_index(handles[h].header, data, order_id) IN
           ret' = Call("find_order_index", h, order_id, r.res, r.val)
    /\ UNCHANGED <<data, handles, inp, out>>

Next ==
    \E h \in {1} :
        \/ New(h)
        \/ Parse(h)
        \/ Drop(h)
        \/ Write(h)
        \/ ReadOrder(h)
        \/ RemoveOrder(h)
        \/ AddOrder(h)
        \/ FindOrderIndex(h)

Spec == Init /\ [][Next]_vars

-----------------------------------------------------------------------------
(* Vocabulary of the properties *)

\* number_of_orders of the header handle h holds in memory.
Orders(h) == handles[h].header.number_of_orders

\* The indexes of the whole slots the buffer has room for.
BufferSlots(buf) ==
    IF Len(buf) < LEN + ORDER_LEN THEN {}
    ELSE 0 .. ((Len(buf) - LEN) \div ORDER_LEN - 1)

\* 109 + 16 * (n + 1) > buffer length, the product kept within the integers.
NoRoomFor(n, buf) == n >= 2 ^ 26 \/ LEN + ORDER_LEN * (n + 1) > Len(buf)

\* The header bytes of the buffer, and the bytes after them.
HeaderBytes(buf) == SubSeq(buf, 1, IF Len(buf) < LEN THEN Len(buf) ELSE LEN)
SlabOf(buf) == SubSeq(buf, LEN + 1, Len(buf))

\* Every header field other than number_of_orders agrees.
SameButOrders(h1, h2) ==
    [h1 EXCEPT !.number_of_orders = 0] = [h2 EXCEPT !.number_of_orders = 0]

-----------------------------------------------------------------------------
(* Properties of the account operations *)

\* C1: for every handle and every index < number_of_orders, removeOrder(index)
\* succeeds, number_of_orders drops by exactly 1, and afterwards readOrder(j)
\* returns, for every j below the new count, the old value of slot j, except
\* that slot index returns the old last order when index was not the last.
C1_RemoveOrderSwapRemoves ==
    [][ \A h \in Handles :
          ( /\ ret'.op = "remove_order" /\ ret'.h = h
            /\ ret'.arg < Orders(h) )
          => /\ ret'.res = "Ok"
             /\ handles'[h].header.number_of_orders = Orders(h) - 1
             /\ \A j \in 0 .. Orders(h) - 2 :
                  LET r == read_order(handles'[h].header, data', j) IN
                  /\ r.res = "Ok"
                  /\ r.val = IF j = ret'.arg
                             THEN SlotValue(data, Orders(h) - 1)
                             ELSE SlotValue(data, j)
      ]_vars

\* C2: addOrder(orderId) fails with UserAccountFull exactly when
\* 109 + 16 * (number_of_orders + 1) exceeds the buffer length, and then
\* leaves the header and every byte of the buffer unchanged; otherwise it
\* writes orderId at slot number_of_orders and adds 1 to number_of_orders.
C2_AddOrderFullExactlyWhenNoRoom ==
    [][ \A h \in Handles :
          (ret'.op = "add_order" /\ ret'.h = h)
          => /\ (ret'.res = "UserAccountFull") <=> NoRoomFor(Orders(h), data)
             /\ NoRoomFor(Orders(h), data)
                  => data' = data /\ handles' = handles
             /\ ~ NoRoomFor(Orders(h), data)
                  => /\ ret'.res = "Ok"
                     /\ handles'[h].header.number_of_orders = Orders(h) + 1
                     /\ SlotValue(data', Orders(h)) = ret'.arg
      ]_vars

\* C3: removeOrder(index) with number_of_orders = 0 or index >= number_of_orders
\* fails with InvalidOrderIndex and leaves the whole buffer and the header in
\* memory, number_of_orders included, unchanged.
C3_RemoveOrderRejectsBadIndex ==
    [][ \A h \in Handles :
          ( /\ ret'.op = "remove_order" /\ ret'.h = h
            /\ (Orders(h) = 0 \/ ret'.arg >= Orders(h)) )
          => /\ ret'.res = "InvalidOrderIndex"
             /\ data' = data
             /\ handles' = handles
      ]_vars

\* A removal at an index beyond a non-empty list has been rejected.
C3_Witness ==
    /\ ret.op = "remove_order"
    /\ ret.res = "InvalidOrderIndex"
    /\ Orders(ret.h) >= 1
    /\ ret.arg >= Orders(ret.h)
    /\ \E j \in BufferSlots(data) : SlotValue(data, j) # 0

\* C4 as claimed: for every account state and every order id, a successful
\* addOrder(id) immediately followed by findOrderIndex(id) returns
\* number_of_orders - 1, the index of the slot just written.
C4_AddThenFindReturnsLastIndex ==
    \A h \in Handles :
      (ret.op = "add_order" /\ ret.res = "Ok" /\ ret.h = h)
      => find_order_index(handles[h].header, data, ret.arg)
           = [ res |-> "Ok", val |-> Orders(h) - 1 ]

\* C4 as amended: a successful addOrder(id) immediately followed by
\* findOrderIndex(id) succeeds and returns the lowest index whose slot holds
\* id; that index is number_of_orders - 1 whenever no slot below
\* number_of_orders - 1 holds id.
C4_AddThenFindReturnsFirstMatch ==
    \A h \in Handles :
      (ret.op = "add_order" /\ ret.res = "Ok" /\ ret.h = h)
      => LET r == find_order_index(handles[h].header, data, ret.arg) IN
         /\ r.res = "Ok"
         /\ r.val < Orders(h)
         /\ r.val \in BufferSlots(data)
         /\ SlotValue(data, r.val) = ret.arg
         /\ \A j \in BufferSlots(data) :
              j < r.val => SlotValue(data, j) # ret.arg
         /\ (\A j \in BufferSlots(data) :
               j < Orders(h) - 1 => SlotValue(data, j) # ret.arg)
            => r.val = Orders(h) - 1

\* An order id was added a second time: the slot just written is not the
\* first one that holds it.
C4_Witness ==
    /\ ret.op = "add_order"
    /\ ret.res = "Ok"
    /\ Orders(ret.h) = 2
    /\ SlotValue(data, 0) = ret.arg
    /\ SlotValue(data, 1) = ret.arg

\* C5: for every handle, one parsed from a buffer with an arbitrary stored
\* number_of_orders included, readOrder(index) returns InvalidOrderIndex when
\* index >= number_of_orders and otherwise the little-endian value of the 16
\* bytes at offset 109 + 16 * index; it never aborts and changes neither the
\* buffer nor the header.
C5_ReadOrderNeverAborts ==
    [][ \A h \in Handles :
          (ret'.op = "read_order" /\ ret'.h = h)
          => /\ ret'.res # "panic"
             /\ ret'.arg >= Orders(h) => ret'.res = "InvalidOrderIndex"
             /\ ret'.arg < Orders(h)
                  => /\ ret'.res = "Ok"
                     /\ SlotInRange(data, ret'.arg)
                     /\ ret'.val = SlotValue(data, ret'.arg)
             /\ data' = data
             /\ handles' = handles
      ]_vars

\* C6: findOrderIndex(orderId) looks at the slots [0, number_of_orders) only:
\* it returns the lowest index below number_of_orders whose slot equals
\* orderId, and fails with OrderNotFound when no such slot exists, whatever
\* the slots from number_of_orders on hold.
C6_FindScansDensePrefix ==
    \A h \in Handles :
      (ret.op = "find_order_index" /\ ret.h = h)
      => LET matches == { j \in BufferSlots(data) :
                            j < Orders(h) /\ SlotValue(data, j) = ret.arg }
         IN  IF matches = {}
             THEN ret.res = "OrderNotFound"
             ELSE /\ ret.res = "Ok"
                  /\ ret.val \in matches
                  /\ \A j \in matches : ret.val <= j

\* C7: a call of addOrder or removeOrder that changes number_of_orders in
\* memory leaves the 109 header bytes of the buffer as they were, so a fresh
\* parse still returns what it returned before (the old number_of_orders when
\* buffer and handle agreed); after write() a fresh parse returns a header
\* equal in every field to the one in memory, and write() changes no byte of
\* the slab.
C7_HeaderStaleUntilWrite ==
    [][ \A h \in Handles :
          /\ ( /\ ret'.op \in {"add_order", "remove_order"} /\ ret'.h = h
               /\ handles'[h].header.number_of_orders # Orders(h) )
             => /\ HeaderBytes(data') = HeaderBytes(data)
                /\ parse(data') = parse(data)
                /\ (parse(data).res = "Ok"
                      /\ parse(data).header = handles[h].header)
                   => /\ parse(data').header.number_of_orders = Orders(h)
                      /\ parse(data').header # handles'[h].header
          /\ (ret'.op = "write" /\ ret'.h = h /\ ret'.res = "Ok")
             => /\ parse(data') = [ res |-> "Ok", header |-> handles'[h].header ]
                /\ SlabOf(data') = SlabOf(data)
      ]_vars

\* An order was added through a handle that agreed with the buffer: the
\* buffer still stores the count from before the call.
C7_Witness ==
    /\ ret.op = "add_order"
    /\ ret.res = "Ok"
    /\ parse(data).res = "Ok"
    /\ SameButOrders(parse(data).header, handles[ret.h].header)
    /\ parse(data).header.number_of_orders = Orders(ret.h) - 1
    /\ Orders(ret.h) = 2

\* C9: parse returns an error and yields no handle for every buffer shorter
\* than the 109-byte header, for every buffer whose tag byte is no AccountTag,
\* and for the tags Uninitialized and DexState; it yields a handle only when
\* the leading 109 bytes decode to a header with tag UserAccount.
C9_ParseRejectsWithError ==
    \A h \in Handles :
      (ret.op = "parse" /\ ret.h = h)
      => /\ (Len(data) < LEN \/ data[1] \notin {0, 1, 2} \/ data[1] \in {0, 1})
            => /\ ret.res \in {"InvalidAccountData", "UninitializedAccount"}
               /\ ~ Live(h)
         /\ Live(h)
            => /\ Len(data) >= LEN
               /\ unpack_from_slice(Slice(data, 0, LEN)).res = "Ok"
               /\ unpack_from_slice(Slice(data, 0, LEN)).header.tag = "UserAccount"

-----------------------------------------------------------------------------
(* The header encoding on its own: pack a header value, unpack the bytes *)

\* Header values; number_of_orders need not match any slab here.
HeaderValues ==
    [ tag                 : AccountTag,
      market              : {KeyA, KeyB},
      owner               : {KeyA, KeyB},
      base_token_free     : {0, 70000},
      base_token_locked   : {1, 2147483647},
      quote_token_free    : {0, 256},
      quote_token_locked  : {65536},
      accumulated_rebates : {0, 16777221},
      number_of_orders    : {0, 3, U32_MUL16_LIMIT} ]

\* Sizes of the destination packed into: the header alone, and with bytes after.
PackRooms == {LEN, LEN + 3}

\* The byte a destination is filled with before packing.
Filler == [ i \in 1 .. LEN + 3 |-> 170 ]

NoCall == Call("init", 0, -1, "Ok", -1)

NoHandles == [h \in Handles |-> [live |-> FALSE, header |-> NoHeader]]

InitPack ==
    /\ \E header \in HeaderValues, room \in PackRooms :
           inp = [ kind |-> "header", header |-> header, room |-> room ]
    /\ out = NoInput
    /\ data = << >>
    /\ handles = NoHandles
    /\ ret = NoCall

PackStep ==
    /\ inp.kind = "header" /\ out.kind = "none"
    /\ LET r == pack_into_slice(inp.header, SubSeq(Filler, 1, inp.room)) IN
         out' = [ kind |-> "packed", res |-> r.res, bytes |-> r.data ]
    /\ UNCHANGED <<data, handles, ret, inp>>

UnpackStep ==
    /\ out.kind = "packed" /\ out.res = "Ok"
    /\ LET r == unpack_from_slice(out.bytes) IN
         out' = [ kind |-> "unpacked", res |-> r.res, bytes |-> out.bytes,
                  header |-> r.header ]
    /\ UNCHANGED <<data, handles, ret, inp>>

NextPack == PackStep \/ UnpackStep

SpecPack == InitPack /\ [][NextPack]_vars

\* C8: for every header value pack writes exactly 109 bytes, and unpacking
\* those bytes yields a header equal to the original in all nine fields.
C8_PackUnpackRoundTrip ==
    /\ out.kind = "packed"
       => /\ out.res = "Ok"
          /\ Len(out.bytes) = inp.room
          /\ Len(Serialize(inp.header)) = LEN
          /\ SubSeq(out.bytes, LEN + 1, inp.room) = SubSeq(Filler, LEN + 1, inp.room)
    /\ out.kind = "unpacked"
       => /\ out.res = "Ok"
          /\ out.header.tag = inp.header.tag
          /\ out.header.market = inp.header.market
          /\ out.header.owner = inp.header.owner
          /\ out.header.base_token_free = inp.header.base_token_free
          /\ out.header.base_token_locked = inp.header.base_token_locked
          /\ out.header.quote_token_free = inp.header.quote_token_free
          /\ out.header.quote_token_locked = inp.header.quote_token_locked
          /\ out.header.accumulated_rebates = inp.header.accumulated_rebates
          /\ out.header.number_of_orders = inp.header.number_of_orders

\* A header of another tag, with distinct keys and multi-byte amounts, has
\* been packed next to other bytes and unpacked.
C8_Witness ==
    /\ out.kind = "unpacked"
    /\ inp.room > LEN
    /\ inp.header.tag = "DexState"
    /\ inp.header.market # inp.header.owner
    /\ inp.header.base_token_free = 70000
    /\ inp.header.base_token_locked = 2147483647
    /\ inp.header.number_of_orders = U32_MUL16_LIMIT

-----------------------------------------------------------------------------
(* DexState.check on its own *)

DexStates ==
    [ tag                 : AccountTag,
      signer_nonce        : {0, 255},
      base_mint           : {KeyA, KeyB},
      quote_mint          : {KeyB},
      base_vault          : {KeyA},
      quote_vault         : {KeyB},
      orderbook           : {KeyA},
      aaob_program        : {KeyB},
      admin               : {KeyA, KeyB},
      creation_timestamp  : {-1, 0, 1700000000},
      base_volume         : {0},
      quote_volume        : {9},
      accumulated_fees    : {0, 70000},
      min_base_order_size : {1} ]

InitCheck ==
    /\ \E state \in DexStates : inp = [ kind |-> "dex_state", state |-> state ]
    /\ out = NoInput
    /\ data = << >>
    /\ handles = NoHandles
    /\ ret = NoCall

CheckStep ==
    /\ inp.kind = "dex_state" /\ out.kind = "none"
    /\ out' = [ kind |-> "check", result |-> check(inp.state) ]
    /\ UNCHANGED <<data, handles, ret, inp>>

NextCheck == CheckStep

SpecCheck == InitCheck /\ [][NextCheck]_vars

\* C10: check() fails with InvalidAccountData whenever the tag is
\* Uninitialized or UserAccount, and with the tag DexState returns the same
\* record, every field unchanged; the tag alone decides.
C10_CheckDecidedByTag ==
    out.kind = "check"
    => /\ inp.state.tag \in {"Uninitialized", "UserAccount"}
            => out.result = [ res |-> "InvalidAccountData" ]
       /\ inp.state.tag = "DexState"
            => /\ out.result.res = "Ok"
               /\ out.result.state = inp.state

\* A record with the tag of a user account and otherwise plausible fields
\* has been checked.
C10_Witness ==
    /\ out.kind = "check"
    /\ inp.state.tag = "UserAccount"
    /\ inp.state.signer_nonce = 255
    /\ inp.state.accumulated_fees = 70000

-----------------------------------------------------------------------------
(* Wide unsigned integers.  A u64 or u128 beyond the integers of TLC is the  *)
(* sequence of its little-endian bytes, as to_le_bytes writes it; widths are *)
(* counted in bytes.                                                         *)

\* x as u64 / x as u128: the low width bytes, zero-extended.
Resize(a, width) ==
    IF width <= Len(a) THEN SubSeq(a, 1, width)
    ELSE a \o SubSeq([ i \in 1 .. width |-> 0 ], 1, width - Len(a))

\* A number of the model as a u64.
U64(x) == to_le_bytes(x, 8)

WideIsZero(a) == \A i \in 1 .. Len(a) : a[i] = 0

\* a < b: the most significant byte in which they differ is smaller in a.
WideLess(a, b) ==
    LET width == IF Len(a) > Len(b) THEN Len(a) ELSE Len(b)
        wa    == Resize(a, width)
        wb    == Resize(b, width)
    IN  \E i \in 1 .. width :
            /\ wa[i] < wb[i]
            /\ \A j \in i + 1 .. width : wa[j] = wb[j]

WideLeq(a, b) == ~ WideLess(b, a)

WideEq(a, b) == ~ WideLess(a, b) /\ ~ WideLess(b, a)

\* a + b + carry from byte i on, in the width of a (wrapping).
RECURSIVE WideAddFrom(_, _, _, _)
WideAddFrom(a, b, i, carry) ==
    IF i > Len(a) THEN << >>
    ELSE LET sum == a[i] + b[i] + carry IN
         << sum % 256 >> \o WideAddFrom(a, b, i + 1, sum \div 256)

WideAdd(a, b, width) ==
    WideAddFrom(Resize(a, width), Resize(b, width), 1, 0)

\* a - b for a >= b, in the given width.
RECURSIVE WideSubFrom(_, _, _, _)
WideSubFrom(a, b, i, borrow) ==
    IF i > Len(a) THEN << >>
    ELSE LET diff == a[i] - b[i] - borrow IN
         << diff % 256 >> \o WideSubFrom(a, b, i + 1, IF diff < 0 THEN 1 ELSE 0)

WideSub(a, b, width) ==
    WideSubFrom(Resize(a, width), Resize(b, width), 1, 0)

\* a * digit for one byte digit, one byte wider than a.
RECURSIVE WideMulDigitFrom(_, _, _, _)
WideMulDigitFrom(a, digit, i, carry) ==
    IF i > Len(a) THEN << carry >>
    ELSE LET prod == a[i] * digit + carry IN
         << prod % 256 >> \o WideMulDigitFrom(a, digit, i + 1, prod \div 256)

WideMulDigit(a, digit) == WideMulDigitFrom(a, digit, 1, 0)

\* a << (8 * bytes) and a >> (8 * bytes).
ShiftLeftBytes(a, bytes) == Resize(<< >>, bytes) \o a

ShiftRightBytes(a, bytes) ==
    IF bytes >= Len(a) THEN << >> ELSE SubSeq(a, bytes + 1, Len(a))

\* a * b, Len(a) + Len(b) bytes wide: the sum of a * b[i] << 8 (i - 1).
RECURSIVE WideMulFrom(_, _, _)
WideMulFrom(a, b, i) ==
    IF i > Len(b) THEN Resize(<< >>, Len(a) + Len(b))
    ELSE WideAdd(ShiftLeftBytes(WideMulDigit(a, b[i]), i - 1),
                 WideMulFrom(a, b, i + 1),
                 Len(a) + Len(b))

WideMul(a, b) == WideMulFrom(a, b, 1)

\* The largest digit in lo .. hi with divisor * digit <= rem (lo qualifies).
RECURSIVE QuotientDigit(_, _, _, _)
QuotientDigit(rem, divisor, lo, hi) ==
    IF lo = hi THEN lo
    ELSE LET mid == (lo + hi + 1) \div 2 IN
         IF WideLeq(WideMulDigit(divisor, mid), rem)
         THEN QuotientDigit(rem, divisor, mid, hi)
         ELSE QuotientDigit(rem, divisor, lo, mid - 1)

\* Long division of the bytes i .. Len(a) of a by a nonzero divisor, most
\* significant byte first: the quotient bytes and the remainder so far.
\* Leading zero bytes of a give zero bytes of the quotient.
RECURSIVE WideDivMod(_, _, _)
WideDivMod(a, divisor, i) ==
    IF i > Len(a)
    THEN [ quot |-> << >>, rem |-> Resize(<< >>, Len(divisor)) ]
    ELSE LET high == WideDivMod(a, divisor, i + 1) IN
         IF a[i] = 0 /\ WideIsZero(high.rem)
         THEN [ quot |-> << 0 >> \o high.quot, rem |-> high.rem ]
         ELSE LET cur   == << a[i] >> \o high.rem
                  digit == QuotientDigit(cur, divisor, 0, 255)
              IN  [ quot |-> << digit >> \o high.quot,
                    rem  |-> Resize(WideSub(cur, WideMulDigit(divisor, digit),
                                            Len(divisor) + 1),
                                    Len(divisor)) ]

\* a / b in the width of a; a division by zero panics and has no value.
WideDiv(a, divisor) ==
    IF WideIsZero(divisor) THEN << >>
    ELSE WideDivMod(a, divisor, 1).quot

-----------------------------------------------------------------------------
(* The 32.32 fixed-point helpers of crate::utils and the discount mints of   *)
(* crate::processor, as the specification describes them.                    *)

\* 1.0 in 32.32 fixed point.
FP_32_ONE == ShiftLeftBytes(<< 1, 0, 0, 0 >>, 4)

\* floor(a * b / 2^32) through a 128-bit product, truncated to 64 bits.
fp32_mul(a, b) ==
    Resize(ShiftRightBytes(WideMul(Resize(a, 8), Resize(b, 8)), 4), 8)

\* floor(a * 2^32 / b) through a 128-bit dividend, truncated to 64 bits.
fp32_div_inverted(a, b) ==
    Resize(WideDiv(Resize(ShiftLeftBytes(b, 4), 16), Resize(a, 16)), 8)

fp32_div(a, b) ==
    Resize(WideDiv(Resize(ShiftLeftBytes(a, 4), 16), Resize(b, 16)), 8)

MSRM_MINT == [ i \in 1 .. 32 |-> 77 ]
SRM_MINT == [ i \in 1 .. 32 |-> 83 ]

-----------------------------------------------------------------------------
(* FeeTier *)

FeeTier == { "Base", "Srm2", "Srm3", "Srm4", "Srm5", "Srm6", "MSrm" }

\* x << 32 on a u64.
Shl32(x) == Resize(ShiftLeftBytes(x, 4), 8)

\* x basis points as a 32.32 rate: (x << 32) / 10_000 on u64.
BasisPoints(x) == WideDiv(Shl32(U64(x)), U64(10000))

from_srm_and_msrm_balances_strict(srm_held, msrm_held) ==
    LET one_srm == U64(1000000)
        times(k) == Resize(WideMul(one_srm, U64(k)), 8)
    IN  IF WideLess(U64(1), msrm_held) THEN "MSrm"
        ELSE IF WideLess(times(1000000), srm_held) THEN "Srm6"
        ELSE IF WideLess(times(100000), srm_held) THEN "Srm5"
        ELSE IF WideLess(times(10000), srm_held) THEN "Srm4"
        ELSE IF WideLess(times(1000), srm_held) THEN "Srm3"
        ELSE IF WideLess(times(100), srm_held) THEN "Srm2"
        ELSE "Base"

from_srm_and_msrm_balances_swapped(srm_held, msrm_held) ==
    LET one_srm == U64(1000000)
        times(k) == Resize(WideMul(one_srm, U64(k)), 8)
    IN  IF WideLeq(U64(1), msrm_held) THEN "MSrm"
        ELSE IF WideLeq(times(1000000), srm_held) THEN "Srm6"
        ELSE IF WideLeq(times(100000), srm_held) THEN "Srm5"
        ELSE IF WideLeq(times(10000), srm_held) THEN "Srm4"
        ELSE IF WideLeq(times(1000), srm_held) THEN "Srm2"
        ELSE IF WideLeq(times(100), srm_held) THEN "Srm3"
        ELSE "Base"

from_srm_and_msrm_balances(srm_held, msrm_held) ==
    LET one_srm == U64(1000000)
        times(k) == Resize(WideMul(one_srm, U64(k)), 8)
    IN  IF WideLeq(U64(1), msrm_held) THEN "MSrm"
        ELSE IF WideLeq(times(1000000), srm_held) THEN "Srm6"
        ELSE IF WideLeq(times(100000), srm_held) THEN "Srm5"
        ELSE IF WideLeq(times(10000), srm_held) THEN "Srm4"
        ELSE IF WideLeq(times(1000), srm_held) THEN "Srm3"
        ELSE IF WideLeq(times(100), srm_held) THEN "Srm2"
        ELSE "Base"

taker_rate_rounded_up(self) ==
    CASE self = "Base" -> WideAdd(BasisPoints(22), U64(1), 8)
      [] self = "Srm2" -> WideAdd(BasisPoints(20), U64(1), 8)
      [] self = "Srm3" -> WideAdd(BasisPoints(18), U64(1), 8)
      [] self = "Srm4" -> WideAdd(BasisPoints(16), U64(1), 8)
      [] self = "Srm5" -> WideAdd(BasisPoints(14), U64(1), 8)
      [] self = "Srm6" -> WideAdd(BasisPoints(12), U64(1), 8)
      [] self = "MSrm" -> WideAdd(BasisPoints(10), U64(1), 8)

taker_rate(self) ==
    CASE self = "Base" -> BasisPoints(22)
      [] self = "Srm2" -> BasisPoints(20)
      [] self = "Srm3" -> BasisPoints(18)
      [] self = "Srm4" -> BasisPoints(16)
      [] self = "Srm5" -> BasisPoints(14)
      [] self = "Srm6" -> BasisPoints(12)
      [] self = "MSrm" -> BasisPoints(10)

maker_rebate_generous(self, pc_qty) ==
    LET rate == IF self = "MSrm" THEN BasisPoints(15) ELSE BasisPoints(3)
    IN  fp32_mul(pc_qty, rate)

maker_rebate(self, pc_qty) ==
    LET rate == IF self = "MSrm" THEN BasisPoints(5) ELSE BasisPoints(3)
    IN  fp32_mul(pc_qty, rate)

remove_taker_fee_by_rate_less_one(self, pc_qty) ==
    LET rate == taker_rate(self)
    IN  fp32_div(pc_qty, WideSub(FP_32_ONE, rate, 8))

remove_taker_fee(self, pc_qty) ==
    LET rate == taker_rate(self)
    IN  fp32_div(pc_qty, WideAdd(FP_32_ONE, rate, 8))

taker_fee(self, pc_qty) ==
    LET rate == taker_rate(self)
    IN  fp32_mul(pc_qty, rate)

\* spl_token's Account is 165 bytes: mint, owner, amount, delegate (4-byte
\* option tag and key), state, is_native (tag and u64), delegated_amount,
\* close_authority (tag and key).
TOKEN_ACCOUNT_LEN == 165

TokenAccountBytes(mint, owner, amount, state) ==
    mint \o owner \o amount \o Resize(<< >>, 36) \o << state >>
         \o Resize(<< >>, 56)

OptionTagOk(src, offset) ==
    /\ src[offset + 1] \in {0, 1}
    /\ \A i \in 2 .. 4 : src[offset + i] = 0

\* spl_token::state::Account::unpack: the length, the encoding, then
\* is_initialized (state 1 Initialized or 2 Frozen).
TokenAccountUnpack(input) ==
    LET failed(e) == [ res |-> e, mint |-> << >>, owner |-> << >>,
                       amount |-> << >> ]
    IN  IF Len(input) # TOKEN_ACCOUNT_LEN THEN failed("InvalidAccountData")
        ELSE IF \/ input[109] \notin {0, 1, 2}
                \/ ~ OptionTagOk(input, 72)
                \/ ~ OptionTagOk(input, 109)
                \/ ~ OptionTagOk(input, 129)
             THEN failed("InvalidAccountData")
        ELSE IF input[109] = 0 THEN failed("UninitializedAccount")
        ELSE [ res    |-> "Ok",
               mint   |-> Slice(input, 0, 32),
               owner  |-> Slice(input, 32, 64),
               amount |-> Slice(input, 64, 72) ]

get(account, expected_owner) ==
    LET parsed_token_account == TokenAccountUnpack(account)
        Err(e) == [ res |-> e, tier |-> "none" ]
    IN  IF parsed_token_account.res # "Ok" THEN Err(parsed_token_account.res)
        ELSE IF parsed_token_account.owner # expected_owner
             THEN Err("InvalidArgument")
        ELSE IF parsed_token_account.mint = MSRM_MINT
             THEN [ res  |-> "Ok",
                    tier |-> from_srm_and_msrm_balances(
                                 U64(0), parsed_token_account.amount) ]
        ELSE IF parsed_token_account.mint = SRM_MINT
             THEN [ res  |-> "Ok",
                    tier |-> from_srm_and_msrm_balances(
                                 parsed_token_account.amount, U64(0)) ]
        ELSE Err("InvalidArgument")

-----------------------------------------------------------------------------
(* The fee functions applied to inputs drawn from bounded sets *)

RECURSIVE Pow10(_)
Pow10(k) ==
    IF k = 0 THEN U64(1) ELSE Resize(WideMulDigit(Pow10(k - 1), 10), 8)

U64_MAX == [ i \in 1 .. 8 |-> 255 ]

\* Around every power of ten from 10^8 to 10^12, and the extremes.
SrmBalances ==
    { U64(0), U64(1), U64(150000000), U64_MAX }
        \cup { Pow10(k) : k \in 8 .. 12 }
        \cup { WideSub(Pow10(k), U64(1), 8) : k \in 8 .. 12 }
        \cup { WideAdd(Pow10(k), U64(1), 8) : k \in 8 .. 12 }

MsrmBalances == { U64(0), U64(1), U64(2), U64_MAX }

Quantities ==
    { U64(0), U64(1), U64(499), U64(500), U64(1000000), U64(1002000),
      FP_32_ONE, U64_MAX }

\* Rates below, at and above 1.0.
Rates ==
    { U64(1), BasisPoints(20), FP_32_ONE,
      WideAdd(FP_32_ONE, BasisPoints(20), 8), Shl32(U64(3)) }

Amounts == { U64(0), U64(1), U64(500), U64(1000000), Shl32(U64(5)) }

TokenAccounts ==
    { TokenAccountBytes(mint, owner, amount, state) :
          mint \in {MSRM_MINT, SRM_MINT, KeyA}, owner \in {KeyA, KeyB},
          amount \in {U64(0), U64(1), Pow10(8)}, state \in {0, 1, 2, 3} }
        \cup { Resize(<< >>, TOKEN_ACCOUNT_LEN - 1) }

FeeInputs ==
    [ kind : {"balances"}, srm_held : SrmBalances, msrm_held : MsrmBalances ]
        \cup [ kind : {"token_account"}, account : TokenAccounts,
               expected_owner : {KeyB} ]
        \cup [ kind : {"rate"}, x : Amounts, r : Rates ]
        \cup [ kind : {"gross"}, tier : FeeTier, pc_qty : Quantities ]
        \cup [ kind : {"trade"}, maker : FeeTier, taker : FeeTier,
               pc_qty : Quantities ]

InitFee ==
    /\ inp \in FeeInputs
    /\ out = NoInput
    /\ data = << >>
    /\ handles = NoHandles
    /\ ret = NoCall

ResolveStep ==
    /\ inp.kind = "balances" /\ out.kind = "none"
    /\ out' = [ kind |-> "tier",
                tier |-> from_srm_and_msrm_balances(inp.srm_held,
                                                    inp.msrm_held) ]
    /\ UNCHANGED <<data, handles, ret, inp>>

GetStep ==
    /\ inp.kind = "token_account" /\ out.kind = "none"
    /\ LET r == get(inp.account, inp.expected_owner)
       IN  out' = [ kind |-> "get", res |-> r.res, tier |-> r.tier ]
    /\ UNCHANGED <<data, handles, ret, inp>>

\* multiply(x, r), then divide of the product by r.
MultiplyStep ==
    /\ inp.kind = "rate" /\ out.kind = "none"
    /\ out' = [ kind |-> "product", val |-> fp32_mul(inp.x, inp.r) ]
    /\ UNCHANGED <<data, handles, ret, inp>>

DivideStep ==
    /\ inp.kind = "rate" /\ out.kind = "product"
    /\ out' = [ kind |-> "round_trip", product |-> out.val,
                val |-> fp32_div(out.val, inp.r) ]
    /\ UNCHANGED <<data, handles, ret, inp>>

\* remove_taker_fee on the gross quantity, then taker_fee on the net one.
RemoveTakerFeeStep ==
    /\ inp.kind = "gross" /\ out.kind = "none"
    /\ out' = [ kind |-> "net", net |-> remove_taker_fee(inp.tier, inp.pc_qty) ]
    /\ UNCHANGED <<data, handles, ret, inp>>

TakerFeeOnNetStep ==
    /\ inp.kind = "gross" /\ out.kind = "net"
    /\ out' = [ kind |-> "net_and_fee", net |-> out.net,
                fee |-> taker_fee(inp.tier, out.net) ]
    /\ UNCHANGED <<data, handles, ret, inp>>

\* The two sides of one trade: the taker's fee, then the maker's rebate.
TakerFeeStep ==
    /\ inp.kind = "trade" /\ out.kind = "none"
    /\ out' = [ kind |-> "taker_fee", fee |-> taker_fee(inp.taker, inp.pc_qty) ]
    /\ UNCHANGED <<data, handles, ret, inp>>

MakerRebateStep ==
    /\ inp.kind = "trade" /\ out.kind = "taker_fee"
    /\ out' = [ kind |-> "trade_fees", fee |-> out.fee,
                rebate |-> maker_rebate(inp.maker, inp.pc_qty) ]
    /\ UNCHANGED <<data, handles, ret, inp>>

NextFee ==
    \/ ResolveStep
    \/ GetStep
    \/ MultiplyStep
    \/ DivideStep
    \/ RemoveTakerFeeStep
    \/ TakerFeeOnNetStep
    \/ TakerFeeStep
    \/ MakerRebateStep

SpecFee == InitFee /\ [][NextFee]_vars

\* The rank of a tier in the order Base < Srm2 < ... < Srm6 < MSrm.
Rank(tier) ==
    CASE tier = "Base" -> 0
      [] tier = "Srm2" -> 1
      [] tier = "Srm3" -> 2
      [] tier = "Srm4" -> 3
      [] tier = "Srm5" -> 4
      [] tier = "Srm6" -> 5
      [] tier = "MSrm" -> 6

\* C11: resolve(srm, msrm) is MSrm when msrm >= 1; otherwise Srm6 from
\* 10^12, Srm5 from 10^11, Srm4 from 10^10, Srm3 from 10^9, Srm2 from 10^8,
\* else Base; a balance equal to a threshold gets the higher tier and one
\* unit below it the lower tier.
C11_ResolveThresholds ==
    (inp.kind = "balances" /\ out.kind = "tier")
        => out.tier =
              IF ~ WideIsZero(inp.msrm_held) THEN "MSrm"
              ELSE IF ~ WideLess(inp.srm_held, Pow10(12)) THEN "Srm6"
              ELSE IF ~ WideLess(inp.srm_held, Pow10(11)) THEN "Srm5"
              ELSE IF ~ WideLess(inp.srm_held, Pow10(10)) THEN "Srm4"
              ELSE IF ~ WideLess(inp.srm_held, Pow10(9)) THEN "Srm3"
              ELSE IF ~ WideLess(inp.srm_held, Pow10(8)) THEN "Srm2"
              ELSE "Base"

\* A balance of exactly 10^12 with no msrm has been resolved to Srm6.
C11_Witness ==
    /\ inp.kind = "balances" /\ out.kind = "tier"
    /\ inp.srm_held = Pow10(12) /\ WideIsZero(inp.msrm_held)
    /\ out.tier = "Srm6"

\* C12: with msrm = 0 the tier rank never decreases as the srm balance grows
\* (the resolved balance against every larger balance), and with msrm >= 1
\* the tier is MSrm whatever the srm balance.
C12_TierMonotone ==
    (inp.kind = "balances" /\ out.kind = "tier")
        => /\ ~ WideIsZero(inp.msrm_held) => out.tier = "MSrm"
           /\ WideIsZero(inp.msrm_held) =>
                  \A b2 \in SrmBalances :
                      WideLess(inp.srm_held, b2) =>
                          Rank(out.tier)
                              <= Rank(from_srm_and_msrm_balances(b2, U64(0)))

\* A balance one unit below 10^9 has been resolved to Srm2, below the tiers
\* of the larger balances.
C12_Witness ==
    /\ inp.kind = "balances" /\ out.kind = "tier"
    /\ inp.srm_held = WideSub(Pow10(9), U64(1), 8)
    /\ WideIsZero(inp.msrm_held)
    /\ out.tier = "Srm2"
    /\ \E b2 \in SrmBalances :
           /\ WideLess(inp.srm_held, b2)
           /\ Rank(from_srm_and_msrm_balances(b2, U64(0))) > Rank(out.tier)

\* The concrete scenario with the taker fee it states: 150_000_000 srm and
\* no msrm resolve to Srm2, the Srm2 taker rate is floor(20 * 2^32 / 10000)
\* = 8589934, and the taker fee of Srm2 on 1_000_000 is expected_fee.
ConcreteScenario(expected_fee) ==
    /\ ( /\ inp.kind = "balances" /\ out.kind = "tier"
         /\ inp.srm_held = U64(150000000) /\ WideIsZero(inp.msrm_held) )
           => out.tier = "Srm2"
    /\ taker_rate("Srm2") = U64(8589934)
    /\ ( /\ inp.kind = "trade" /\ out.kind = "taker_fee"
         /\ inp.taker = "Srm2" /\ inp.pc_qty = U64(1000000) )
           => out.fee = U64(expected_fee)

\* C13 as stated: srm 150_000_000 with msrm 0 resolves to Srm2, takerRate(Srm2)
\* is (20 << 32) / 10000 in integer arithmetic, and takerFee(Srm2, 1_000_000)
\* = floor(1_000_000 * takerRate(Srm2) / 2^32) equals 2000.
C13_ScenarioFee2000 == ConcreteScenario(2000)

\* C13 amended: the same scenario, where takerFee(Srm2, 1_000_000) equals
\* 1999, the rate (20 << 32) / 10000 having been truncated to 8589934.
C13_ScenarioFee1999 == ConcreteScenario(1999)

\* The taker fee of tier Srm2 on 1_000_000 has been computed.
C13_Witness ==
    /\ inp.kind = "trade" /\ out.kind = "taker_fee"
    /\ inp.taker = "Srm2" /\ inp.pc_qty = U64(1000000)
    /\ out.fee = U64(1999)

\* C14: on an account that spl_token parses, get fails with one error kind
\* when the owner differs from expected_owner, and with a distinct error kind
\* when the owner matches but the mint is neither discount mint, returning no
\* tier in either case; when both checks pass the amount is the msrm balance
\* for MSRM_MINT and the srm balance for SRM_MINT, the other balance being 0,
\* and the tier is from_srm_and_msrm_balances of those.
C14_GetErrorKindsDistinct ==
    LET parsed == TokenAccountUnpack(inp.account)
        owner_mismatch_kinds ==
            { get(other, inp.expected_owner).res :
                  other \in { a \in TokenAccounts :
                                  /\ TokenAccountUnpack(a).res = "Ok"
                                  /\ TokenAccountUnpack(a).owner
                                         # inp.expected_owner } }
    IN  (inp.kind = "token_account" /\ out.kind = "get" /\ parsed.res = "Ok")
            => /\ parsed.owner # inp.expected_owner
                      => out.res # "Ok" /\ out.tier = "none"
               /\ ( /\ parsed.owner = inp.expected_owner
                    /\ parsed.mint \notin {MSRM_MINT, SRM_MINT} )
                      => /\ out.res # "Ok" /\ out.tier = "none"
                         /\ out.res \notin owner_mismatch_kinds
               /\ (parsed.owner = inp.expected_owner /\ parsed.mint = MSRM_MINT)
                      => /\ out.res = "Ok"
                         /\ out.tier = from_srm_and_msrm_balances(
                                           U64(0), parsed.amount)
               /\ (parsed.owner = inp.expected_owner /\ parsed.mint = SRM_MINT)
                      => /\ out.res = "Ok"
                         /\ out.tier = from_srm_and_msrm_balances(
                                           parsed.amount, U64(0))

\* The exact product x * r / 2^32 and the exact quotient product * 2^32 / r
\* both fit in 64 bits.
RoundTripFits ==
    LET wide_product  == ShiftRightBytes(WideMul(inp.x, inp.r), 4)
        wide_quotient == WideDiv(Resize(ShiftLeftBytes(out.product, 4), 16),
                                 Resize(inp.r, 16))
    IN  /\ WideIsZero(ShiftRightBytes(wide_product, 8))
        /\ WideIsZero(ShiftRightBytes(wide_quotient, 8))

\* C15 as stated: for every nonzero rate r and every amount x whose
\* intermediate results fit in 64 bits, divide(multiply(x, r), r) differs
\* from x by at most 1 unit.
C15_RoundTripWithinOne ==
    (inp.kind = "rate" /\ out.kind = "round_trip" /\ RoundTripFits)
        => /\ WideLeq(inp.x, WideAdd(out.val, U64(1), 9))
           /\ WideLeq(out.val, WideAdd(inp.x, U64(1), 9))

\* C15 amended: divide(multiply(x, r), r) never exceeds x; it is within 1
\* unit of x when r >= 2^32 (a rate of at least 1.0), and for any nonzero r
\* the loss x - divide(multiply(x, r), r) times r stays below 2^32 + r.
C15_RoundTripLossBounded ==
    (inp.kind = "rate" /\ out.kind = "round_trip" /\ RoundTripFits)
        => /\ WideLeq(out.val, inp.x)
           /\ WideLeq(FP_32_ONE, inp.r)
                  => WideLeq(inp.x, WideAdd(out.val, U64(1), 9))
           /\ WideLess(WideMul(WideSub(inp.x, out.val, 8), inp.r),
                       WideAdd(FP_32_ONE, inp.r, 9))

\* 1_000_000 has gone through the rate 1.002 and come back as 999_999.
C15_Witness ==
    /\ inp.kind = "rate" /\ out.kind = "round_trip" /\ RoundTripFits
    /\ inp.x = U64(1000000)
    /\ inp.r = WideAdd(FP_32_ONE, BasisPoints(20), 8)
    /\ out.product = U64(1001999)
    /\ out.val = U64(999999)

\* q = floor(a * b / c) for wide a, b, c, q: q * c <= a * b < (q + 1) * c.
IsFloorOf(q, a, b, c) ==
    /\ WideLeq(WideMul(q, c), WideMul(a, b))
    /\ WideLess(WideMul(a, b), WideMul(WideAdd(q, U64(1), 9), c))

\* C19: for every fee tier and every fee-inclusive quantity g, the net
\* quantity n = removeTakerFee(tier, g) is floor(g * 2^32 / (2^32 +
\* takerRate(tier))), n <= g, and n + takerFee(tier, n) <= g.
C19_NetPlusFeeWithinGross ==
    (inp.kind = "gross" /\ out.kind = "net_and_fee")
        => /\ IsFloorOf(out.net, inp.pc_qty, FP_32_ONE,
                        WideAdd(FP_32_ONE, taker_rate(inp.tier), 9))
           /\ WideLeq(out.net, inp.pc_qty)
           /\ WideLeq(WideAdd(out.net, out.fee, 9), inp.pc_qty)

\* A gross quantity of 1_002_000 at tier Srm2 has given the net quantity
\* 1_000_000 and the fee 1999 on it.
C19_Witness ==
    /\ inp.kind = "gross" /\ out.kind = "net_and_fee"
    /\ inp.tier = "Srm2" /\ inp.pc_qty = U64(1002000)
    /\ out.net = U64(1000000)
    /\ out.fee = U64(1999)

\* C20: for every maker tier, taker tier and quantity q, makerRebate(tm, q)
\* <= takerFee(tt, q); the rebate is q times 5bp for MSrm and 3bp for the
\* other tiers, and no taker rate is below 10bp.
C20_RebateWithinFee ==
    /\ \A tier \in FeeTier : WideLeq(BasisPoints(10), taker_rate(tier))
    /\ (inp.kind = "trade" /\ out.kind = "trade_fees")
           => /\ WideLeq(out.rebate, out.fee)
              /\ IsFloorOf(out.rebate, inp.pc_qty,
                           IF inp.maker = "MSrm" THEN BasisPoints(5)
                                                 ELSE BasisPoints(3),
                           FP_32_ONE)

\* An MSrm maker and an MSrm taker on 1_000_000: rebate 499 against fee 999.
C20_Witness ==
    /\ inp.kind = "trade" /\ out.kind = "trade_fees"
    /\ inp.maker = "MSrm" /\ inp.taker = "MSrm"
    /\ inp.pc_qty = U64(1000000)
    /\ out.rebate = U64(499)
    /\ out.fee = U64(999)

-----------------------------------------------------------------------------
(* A registered account: the buffer holds a UserAccount header with no       *)
(* orders, one handle is bound to it, and add_order and remove_order are     *)
(* called on the handle.  out keeps the list the successful calls build.     *)

\* Buffers that hold a whole header: k whole slots, and one byte short of
\* the largest slab.
RegisteredLens ==
    {LEN + ORDER_LEN * k : k \in 0 .. MaxSlots}
        \cup {LEN + ORDER_LEN * MaxSlots - 1}

\* The abstract list: append, and swap-with-last-then-drop.
ListAppend(list, order) == Append(list, order)

ListSwapRemove(list, index) ==
    IF index >= Len(list) THEN list
    ELSE SubSeq([list EXCEPT ![index + 1] = list[Len(list)]],
                1, Len(list) - 1)

InitRegistered ==
    /\ \E len \in RegisteredLens, pattern \in SlabPatterns :
           data = AccountBytes(len, TagByte("UserAccount"), 0, pattern)
    /\ handles = [NoHandles EXCEPT
                      ![1] = [live |-> TRUE, header |-> parse(data).header]]
    /\ ret = Call("parse", 1, -1, "Ok", -1)
    /\ inp = NoInput
    /\ out = [ kind |-> "list", orders |-> << >> ]

RegisteredAddOrder(h) ==
    /\ ~ Aborted /\ Live(h)
    /\ \E order \in OrderIds, overflow_checks \in BOOLEAN :
         LET r == add_order(handles[h].header, data, order, overflow_checks) IN
           /\ data' = r.data
           /\ handles' = [handles EXCEPT ![h].header = r.header]
           /\ ret' = Call("add_order", h, order, r.res, -1)
           /\ out' = IF r.res = "Ok"
                     THEN [out EXCEPT !.orders = ListAppend(@, order)]
                     ELSE out
    /\ UNCHANGED inp

RegisteredRemoveOrder(h) ==
    /\ ~ Aborted /\ Live(h)
    /\ \E order_index \in Indexes :
         LET r == remove_order(handles[h].header, data, order_index) IN
           /\ data' = r.data
           /\ handles' = [handles EXCEPT ![h].header = r.header]
           /\ ret' = Call("remove_order", h, order_index, r.res, -1)
           /\ out' = IF r.res = "Ok"
                     THEN [out EXCEPT !.orders = ListSwapRemove(@, order_index)]
                     ELSE out
    /\ UNCHANGED inp

NextRegistered == RegisteredAddOrder(1) \/ RegisteredRemoveOrder(1)

SpecRegistered == InitRegistered /\ [][NextRegistered]_vars

\* C16: from a registered account over a buffer of length L, after any
\* sequence of add_order and remove_order calls, successful or failing,
\* 0 <= number_of_orders <= floor((L - 109) / 16) and the slots
\* [0, number_of_orders) hold exactly the list replayed from the successful
\* calls with append and swap-with-last-then-drop.
C16_SlotsReplayList ==
    /\ ~ Aborted
    /\ 0 <= Orders(1)
    /\ Orders(1) <= (Len(data) - LEN) \div ORDER_LEN
    /\ Orders(1) = Len(out.orders)
    /\ \A k \in 0 .. Orders(1) - 1 : SlotValue(data, k) = out.orders[k + 1]

\* The account is full, a further add_order has failed, and the first slot
\* holds an order that a remove_order moved there.
C16_Witness ==
    /\ Orders(1) = MaxSlots
    /\ Len(data) = LEN + ORDER_LEN * MaxSlots
    /\ ret.op = "add_order" /\ ret.res = "UserAccountFull"
    /\ out.orders[1] = 66000 /\ out.orders[MaxSlots] = 513
    /\ SlotValue(data, 0) = 66000

-----------------------------------------------------------------------------
(* Two handles bound to one buffer: handle 1 parsed from a registered        *)
(* account, handle 2 made by new with a header of its own.  out records who  *)
(* has called write, who called it last, and whether the last writer has     *)
(* changed its header since.                                                 *)

InitShared ==
    /\ \E len \in RegisteredLens :
           data = AccountBytes(len, TagByte("UserAccount"), 0, "zero")
    /\ \E header \in RegisterHeaders :
           handles = [NoHandles EXCEPT
                          ![1] = [live |-> TRUE, header |-> parse(data).header],
                          ![2] = [live |-> TRUE, header |-> header]]
    /\ ret = Call("new", 2, -1, "Ok", -1)
    /\ inp = NoInput
    /\ out = [ kind |-> "writers", written |-> {}, last |-> 0,
               changed |-> FALSE ]

\* A successful add_order or remove_order of the last writer changes the
\* header it wrote.
ChangedBy(h, res) ==
    IF h = out.last /\ res = "Ok" THEN [out EXCEPT !.changed = TRUE] ELSE out

SharedAddOrder(h) ==
    /\ ~ Aborted /\ Live(h)
    /\ \E order \in OrderIds, overflow_checks \in BOOLEAN :
         LET r == add_order(handles[h].header, data, order, overflow_checks) IN
           /\ data' = r.data
           /\ handles' = [handles EXCEPT ![h].header = r.header]
           /\ ret' = Call("add_order", h, order, r.res, -1)
           /\ out' = ChangedBy(h, r.res)
    /\ UNCHANGED inp

SharedRemoveOrder(h) ==
    /\ ~ Aborted /\ Live(h)
    /\ \E order_index \in Indexes :
         LET r == remove_order(handles[h].header, data, order_index) IN
           /\ data' = r.data
           /\ handles' = [handles EXCEPT ![h].header = r.header]
           /\ ret' = Call("remove_order", h, order_index, r.res, -1)
           /\ out' = ChangedBy(h, r.res)
    /\ UNCHANGED inp

SharedWrite(h) ==
    /\ ~ Aborted /\ Live(h)
    /\ LET r == write(handles[h].header, data) IN
       /\ data' = r.data
       /\ ret' = Call("write", h, -1, r.res, -1)
       /\ out' = IF r.res = "Ok"
                 THEN [out EXCEPT !.written = @ \cup {h}, !.last = h,
                                  !.changed = FALSE]
                 ELSE out
    /\ UNCHANGED <<handles, inp>>

NextShared ==
    \E h \in Handles :
        \/ SharedAddOrder(h)
        \/ SharedRemoveOrder(h)
        \/ SharedWrite(h)

SpecShared == InitShared /\ [][NextShared]_vars

\* The buffer's leading 109 bytes are the packed in-memory header of the
\* last writer, and parse returns that header.
LastWriterPersists ==
    /\ HeaderBytes(data) = Serialize(handles[out.last].header)
    /\ parse(data).res = "Ok"
    /\ parse(data).header = handles[out.last].header

\* C17 as stated: with two handles on one buffer, under every interleaving
\* of their add_order, remove_order and write calls, once both have called
\* write the buffer's leading 109 bytes equal the packed in-memory header of
\* the handle that called write last, and a parse returns that handle's
\* number_of_orders and balances.
C17_LastWriterHeaderPersists ==
    out.written = Handles => LastWriterPersists

\* C17 amended: the same, as long as the last writer has made no successful
\* add_order or remove_order since its write.
C17_LastWriterHeaderPersistsUntilChanged ==
    (out.written = Handles /\ ~ out.changed) => LastWriterPersists

\* Handle 1 holds two orders and wrote first, handle 2 holds one order and
\* wrote last, and the other handle has added an order since.
C17_Witness ==
    /\ out.written = Handles /\ out.last = 2 /\ ~ out.changed
    /\ Orders(1) = 2 /\ Orders(2) = 1
    /\ ret.op = "add_order" /\ ret.h = 1 /\ ret.res = "Ok"
    /\ parse(data).header.number_of_orders = 1
    /\ parse(data).header.base_token_free = 70000

-----------------------------------------------------------------------------
\* The slot a byte of the buffer lies in (byte i is offset i - 1).
SlotOfByte(i) == (i - 1 - LEN) \div ORDER_LEN

\* C18: add_order and remove_order change no header field other than
\* number_of_orders, never write to the leading 109 bytes of the buffer, and
\* change at most the 16 bytes of one slot: slot number_of_orders (as it was
\* before the call) for add_order, slot index for remove_order.
C18_AddRemoveFrame ==
    [][ \A h \in Handles :
          (ret'.op \in {"add_order", "remove_order"} /\ ret'.h = h)
              => /\ SameButOrders(handles[h].header, handles'[h].header)
                 /\ Len(data') = Len(data)
                 /\ HeaderBytes(data') = HeaderBytes(data)
                 /\ \A i \in 1 .. Len(data) :
                        data'[i] # data[i]
                            => /\ i > LEN
                               /\ SlotOfByte(i) =
                                      IF ret'.op = "add_order" THEN Orders(h)
                                                               ELSE ret'.arg
      ]_vars

====
